---- MODULE Spec2Model ----
(***************************************************************************)
(* Model of the three CSV batch scripts of places_autocomplete_rs:         *)
(*   split_csv.py       split_csv(input_file, output_folder, max_lines)    *)
(*   remove_csv_dup.py  remove_duplicates(file_path)                       *)
(*   search_files.py    search_csv_files(directory, postal_code)           *)
(*                                                                         *)
(* A file's content is a sequence of text chunks.  A chunk is one ordinary *)
(* character, the delimiter, the quote character or the line break "\r\n". *)
(* A field is a sequence of chunks, a row a sequence of fields.            *)
(* csv.reader and csv.writer (default "excel" dialect, non-strict) are     *)
(* modelled chunk by chunk.                                                *)
(***************************************************************************)
EXTENDS Integers, Sequences, FiniteSets, TLC

VARIABLES
    \* ---- split_csv ----
    input_text,          \* content of input_file
    max_lines,           \* the max_lines argument
    folder_exists,       \* os.path.exists(output_folder)
    parts,               \* output folder: file number i |-> content of part_<i>.csv
    opened,              \* numbers of the files opened for writing, in order
    headers,             \* local: headers
    reader_pos,          \* local: index of the next row the reader yields
    row,                 \* local: the loop variable
    file_count,          \* local
    current_line_count,  \* local
    current_file,        \* local: number of the open output file, 0 for None
    pc,                  \* position in split_csv
    \* ---- remove_duplicates ----
    file_exists,         \* whether file_path exists
    file_text,           \* content of file_path
    tmp_exists,          \* whether file_path + ".tmp" exists
    tmp_text,            \* content of file_path + ".tmp"
    unique_lines,        \* local: the set of keys seen
    in_pos,              \* local: index of the next row the reader over infile yields
    start_text,          \* content of file_path when the current call started
    calls,               \* number of calls of remove_duplicates started
    dpc,                 \* position in remove_duplicates
    \* ---- search_csv_files ----
    dir_exists,          \* whether the directory exists
    listing,             \* os.listdir(directory) with each entry's content
    postal_code,         \* the postal_code argument
    results,             \* local: results
    list_pos,            \* local: index of the next entry of the listing
    returned,            \* the list the call returned
    qpc                  \* position in search_csv_files

svars == << input_text, max_lines, folder_exists, parts, opened, headers,
            reader_pos, row, file_count, current_line_count, current_file, pc >>
dvars == << file_exists, file_text, tmp_exists, tmp_text, unique_lines, in_pos,
            start_text, calls, dpc >>
qvars == << dir_exists, listing, postal_code, results, list_pos, returned, qpc >>
vars == << svars, dvars, qvars >>

-----------------------------------------------------------------------------
(* Bounds *)
MaxTextLen == 5          \* chunks in a generated input text
MaxLines == 3            \* largest max_lines argument tried
MaxStale == 3            \* part files left in the output folder by an earlier run
MaxCalls == 2            \* calls of remove_duplicates on the same file
MaxFiles == 2            \* entries in the searched directory
MaxRows == 2             \* data rows in the files of the searched directory, in total

-----------------------------------------------------------------------------
(* Text chunks *)
DELIM == ","
QUOTE == "\""
NL == "\r\n"
Alphabet == {"a", DELIM, QUOTE, NL}

RECURSIVE TextsOfLen(_)
TextsOfLen(n) ==
    IF n = 0 THEN {<<>>}
    ELSE {Append(t, c) : t \in TextsOfLen(n - 1), c \in Alphabet}

Texts == UNION {TextsOfLen(n) : n \in 0..MaxTextLen}

-----------------------------------------------------------------------------
(* csv.reader: the parser's state machine (START_RECORD, START_FIELD, IN_FIELD,
   IN_QUOTED_FIELD, QUOTE_IN_QUOTED_FIELD of CPython's _csv), one chunk at a time;
   at the end of the text an unfinished record is returned as it stands *)
ReaderInit == [st |-> "START_RECORD", rows |-> <<>>, fields |-> <<>>, cur |-> <<>>]

SaveField(s) == [s EXCEPT !.fields = Append(s.fields, s.cur), !.cur = <<>>]

EndRecord(s) ==
    [st |-> "START_RECORD", rows |-> Append(s.rows, Append(s.fields, s.cur)),
     fields |-> <<>>, cur |-> <<>>]

AddChar(s, c, st) == [s EXCEPT !.cur = Append(s.cur, c), !.st = st]

ProcessChar(s, c) ==
    CASE s.st = "START_RECORD" /\ c = NL ->
            [s EXCEPT !.rows = Append(s.rows, <<>>)]
      [] s.st \in {"START_RECORD", "START_FIELD"} /\ ~(s.st = "START_RECORD" /\ c = NL) ->
            IF c = NL THEN EndRecord(s)
            ELSE IF c = QUOTE THEN [s EXCEPT !.st = "IN_QUOTED_FIELD"]
            ELSE IF c = DELIM THEN [SaveField(s) EXCEPT !.st = "START_FIELD"]
            ELSE AddChar(s, c, "IN_FIELD")
      [] s.st = "IN_FIELD" ->
            IF c = NL THEN EndRecord(s)
            ELSE IF c = DELIM THEN [SaveField(s) EXCEPT !.st = "START_FIELD"]
            ELSE AddChar(s, c, "IN_FIELD")
      [] s.st = "IN_QUOTED_FIELD" ->
            IF c = QUOTE THEN [s EXCEPT !.st = "QUOTE_IN_QUOTED_FIELD"]
            ELSE AddChar(s, c, "IN_QUOTED_FIELD")
      [] s.st = "QUOTE_IN_QUOTED_FIELD" ->
            IF c = QUOTE THEN AddChar(s, c, "IN_QUOTED_FIELD")
            ELSE IF c = DELIM THEN [SaveField(s) EXCEPT !.st = "START_FIELD"]
            ELSE IF c = NL THEN EndRecord(s)
            ELSE AddChar(s, c, "IN_FIELD")

RECURSIVE ReaderRun(_, _, _)
ReaderRun(text, i, s) ==
    IF i > Len(text)
    THEN IF s.st = "START_RECORD" THEN s.rows ELSE EndRecord(s).rows
    ELSE ReaderRun(text, i + 1, ProcessChar(s, text[i]))

\* list(csv.reader(f)) for a file f holding text
csv_reader(text) == ReaderRun(text, 1, ReaderInit)

-----------------------------------------------------------------------------
(* csv.writer: QUOTE_MINIMAL, doublequote, lineterminator "\r\n" *)
NeedsQuote(f) == \E i \in 1..Len(f) : f[i] \in {DELIM, QUOTE, NL}

RECURSIVE DoubleQuotes(_)
DoubleQuotes(f) ==
    IF f = <<>> THEN <<>>
    ELSE (IF Head(f) = QUOTE THEN <<QUOTE, QUOTE>> ELSE <<Head(f)>>)
         \o DoubleQuotes(Tail(f))

\* faulty variant: a field that needs quoting is written without doubling its quotes
WriteField_nodouble(f, only) ==
    IF NeedsQuote(f) \/ (only /\ f = <<>>)
    THEN <<QUOTE>> \o f \o <<QUOTE>>
    ELSE f

WriteField(f, only) ==
    IF NeedsQuote(f) \/ (only /\ f = <<>>)
    THEN <<QUOTE>> \o DoubleQuotes(f) \o <<QUOTE>>
    ELSE f

RECURSIVE JoinFields(_, _)
JoinFields(r, only) ==
    IF r = <<>> THEN <<>>
    ELSE IF Len(r) = 1 THEN WriteField(r[1], only)
    ELSE WriteField(r[1], only) \o <<DELIM>> \o JoinFields(Tail(r), only)

\* faulty variant: the fields are joined with the delimiter and never quoted
RECURSIVE RawJoin(_)
RawJoin(r) ==
    IF r = <<>> THEN <<>>
    ELSE IF Len(r) = 1 THEN r[1]
    ELSE r[1] \o <<DELIM>> \o RawJoin(Tail(r))

writerow_unquoted(r) == RawJoin(r) \o <<NL>>

\* the text writer.writerow(r) appends to its file
writerow(r) == JoinFields(r, Len(r) = 1) \o <<NL>>

\* the text a sequence of writerow calls leaves in a fresh file
RECURSIVE WriteRows(_)
WriteRows(rs) == IF rs = <<>> THEN <<>> ELSE writerow(Head(rs)) \o WriteRows(Tail(rs))

-----------------------------------------------------------------------------
(* split_csv *)
StaleText == <<"a", NL, "a", NL>>
NoParts == [i \in {} |-> <<>>]
StaleParts == [i \in 1..MaxStale |-> StaleText]

\* the rows the reader over input_file yields
reader == csv_reader(input_text)

InitSplit ==
    /\ input_text \in Texts
    /\ max_lines \in -1..MaxLines
    /\ folder_exists \in BOOLEAN
    /\ parts \in (IF folder_exists THEN {NoParts, StaleParts} ELSE {NoParts})
    /\ opened = <<>>
    /\ headers = <<>>
    /\ reader_pos = 1
    /\ row = <<>>
    /\ file_count = 0
    /\ current_line_count = 0
    /\ current_file = 0
    /\ pc = "start"

IdleDedup ==
    /\ file_exists = FALSE
    /\ file_text = <<>>
    /\ tmp_exists = FALSE
    /\ tmp_text = <<>>
    /\ unique_lines = {}
    /\ in_pos = 1
    /\ start_text = <<>>
    /\ calls = 0
    /\ dpc = "idle"

IdleSearch ==
    /\ dir_exists = FALSE
    /\ listing = <<>>
    /\ postal_code = <<>>
    /\ results = <<>>
    /\ list_pos = 1
    /\ returned = <<>>
    /\ qpc = "idle"

\* os.makedirs(output_folder) when it does not exist
EnsureFolder ==
    /\ pc = "start"
    /\ folder_exists' = TRUE
    /\ pc' = "read_headers"
    /\ UNCHANGED << input_text, max_lines, parts, opened, headers, reader_pos,
                    row, file_count, current_line_count, current_file >>

\* headers = next(reader), then the four locals
ReadHeaders ==
    /\ pc = "read_headers"
    /\ Len(reader) >= 1
    /\ headers' = reader[1]
    /\ reader_pos' = 2
    /\ file_count' = 0
    /\ current_line_count' = 0
    /\ current_file' = 0
    /\ pc' = "for_row"
    /\ UNCHANGED << input_text, max_lines, folder_exists, parts, opened, row >>

\* next(reader) on an empty input file raises StopIteration
ReadHeadersFails ==
    /\ pc = "read_headers"
    /\ Len(reader) = 0
    /\ pc' = "StopIteration"
    /\ UNCHANGED << input_text, max_lines, folder_exists, parts, opened, headers,
                    reader_pos, row, file_count, current_line_count, current_file >>

\* faulty variant: a new file is opened only when none is open
ForRow_norotate ==
    /\ pc = "for_row"
    /\ reader_pos <= Len(reader)
    /\ row' = reader[reader_pos]
    /\ reader_pos' = reader_pos + 1
    /\ pc' = IF current_file = 0 THEN "new_file" ELSE "write_row"
    /\ UNCHANGED << input_text, max_lines, folder_exists, parts, opened, headers,
                    file_count, current_line_count, current_file >>

\* for row in reader: ... if current_line_count == 0
ForRow ==
    /\ pc = "for_row"
    /\ reader_pos <= Len(reader)
    /\ row' = reader[reader_pos]
    /\ reader_pos' = reader_pos + 1
    /\ pc' = IF current_line_count = 0 THEN "new_file" ELSE "write_row"
    /\ UNCHANGED << input_text, max_lines, folder_exists, parts, opened, headers,
                    file_count, current_line_count, current_file >>

\* faulty variant: the new file gets no header row
OpenNewFile_noheader ==
    /\ pc = "new_file"
    /\ file_count' = file_count + 1
    /\ current_file' = file_count + 1
    /\ opened' = Append(opened, file_count + 1)
    /\ parts' = [i \in DOMAIN parts \cup {file_count + 1} |->
                    IF i = file_count + 1 THEN <<>> ELSE parts[i]]
    /\ pc' = "write_row"
    /\ UNCHANGED << input_text, max_lines, folder_exists, headers, reader_pos,
                    row, current_line_count >>

\* close the previous file, open part_<file_count>.csv with mode 'w', write the headers
OpenNewFile ==
    /\ pc = "new_file"
    /\ file_count' = file_count + 1
    /\ current_file' = file_count + 1
    /\ opened' = Append(opened, file_count + 1)
    /\ parts' = [i \in DOMAIN parts \cup {file_count + 1} |->
                    IF i = file_count + 1 THEN writerow(headers) ELSE parts[i]]
    /\ pc' = "write_row"
    /\ UNCHANGED << input_text, max_lines, folder_exists, headers, reader_pos,
                    row, current_line_count >>

\* faulty variant: the count is reset only once it exceeds max_lines
WriteRow_gt ==
    /\ pc = "write_row"
    /\ parts' = [parts EXCEPT ![current_file] = @ \o writerow(row)]
    /\ current_line_count' =
          IF current_line_count + 1 > max_lines THEN 0 ELSE current_line_count + 1
    /\ pc' = "for_row"
    /\ UNCHANGED << input_text, max_lines, folder_exists, opened, headers,
                    reader_pos, row, file_count, current_file >>

\* writer.writerow(row); current_line_count += 1; reset when max_lines is reached
WriteRow ==
    /\ pc = "write_row"
    /\ parts' = [parts EXCEPT ![current_file] = @ \o writerow(row)]
    /\ current_line_count' =
          IF current_line_count + 1 >= max_lines THEN 0 ELSE current_line_count + 1
    /\ pc' = "for_row"
    /\ UNCHANGED << input_text, max_lines, folder_exists, opened, headers,
                    reader_pos, row, file_count, current_file >>

\* the reader is exhausted: close the last file if one was open
CloseLast ==
    /\ pc = "for_row"
    /\ reader_pos > Len(reader)
    /\ current_file' = 0
    /\ pc' = "done"
    /\ UNCHANGED << input_text, max_lines, folder_exists, parts, opened, headers,
                    reader_pos, row, file_count, current_line_count >>

NextSplit ==
    \/ EnsureFolder /\ UNCHANGED << dvars, qvars >>
    \/ ReadHeaders /\ UNCHANGED << dvars, qvars >>
    \/ ReadHeadersFails /\ UNCHANGED << dvars, qvars >>
    \/ ForRow /\ UNCHANGED << dvars, qvars >>
    \/ OpenNewFile /\ UNCHANGED << dvars, qvars >>
    \/ WriteRow /\ UNCHANGED << dvars, qvars >>
    \/ CloseLast /\ UNCHANGED << dvars, qvars >>

SplitStart == InitSplit /\ IdleDedup /\ IdleSearch

SpecSplit == SplitStart /\ [][NextSplit]_vars

-----------------------------------------------------------------------------
(* remove_duplicates *)
IdleSplit ==
    /\ input_text = <<>>
    /\ max_lines = 1
    /\ folder_exists = FALSE
    /\ parts = NoParts
    /\ opened = <<>>
    /\ headers = <<>>
    /\ reader_pos = 1
    /\ row = <<>>
    /\ file_count = 0
    /\ current_line_count = 0
    /\ current_file = 0
    /\ pc = "idle"

\* faulty variant: ''.join(row)
RECURSIVE join_nodelim(_)
join_nodelim(r) == IF r = <<>> THEN <<>> ELSE r[1] \o join_nodelim(Tail(r))

\* ','.join(row)
RECURSIVE join(_)
join(r) ==
    IF r = <<>> THEN <<>>
    ELSE IF Len(r) = 1 THEN r[1]
    ELSE r[1] \o <<DELIM>> \o join(Tail(r))

\* the rows the reader over infile yields
infile_rows == csv_reader(file_text)

InitDedup ==
    /\ file_exists \in BOOLEAN
    /\ file_text \in (IF file_exists THEN Texts ELSE {<<>>})
    /\ tmp_exists \in BOOLEAN
    /\ tmp_text = (IF tmp_exists THEN StaleText ELSE <<>>)
    /\ unique_lines = {}
    /\ in_pos = 1
    /\ start_text = file_text
    /\ calls = 1
    /\ dpc = "start"

\* faulty variant: the output is opened at file_path itself
OpenFiles_inplace ==
    /\ dpc = "start"
    /\ file_exists
    /\ unique_lines' = {}
    /\ file_text' = <<>>
    /\ in_pos' = 1
    /\ dpc' = "for_row"
    /\ UNCHANGED << file_exists, tmp_exists, tmp_text, start_text, calls >>

\* unique_lines = set(); open(file_path, 'r') and open(temp_file_path, 'w')
OpenFiles ==
    /\ dpc = "start"
    /\ file_exists
    /\ unique_lines' = {}
    /\ tmp_exists' = TRUE
    /\ tmp_text' = <<>>
    /\ in_pos' = 1
    /\ dpc' = "for_row"
    /\ UNCHANGED << file_exists, file_text, start_text, calls >>

\* open(file_path, 'r') on a missing file raises before the temporary file is opened
OpenFails ==
    /\ dpc = "start"
    /\ ~file_exists
    /\ unique_lines' = {}
    /\ dpc' = "FileNotFoundError"
    /\ UNCHANGED << file_exists, file_text, tmp_exists, tmp_text, in_pos,
                    start_text, calls >>

\* faulty variant: the key of a written row is not recorded
DedupRow_norecord ==
    /\ dpc = "for_row"
    /\ in_pos <= Len(infile_rows)
    /\ LET r == infile_rows[in_pos]
           line == join(r)
       IN  IF line \notin unique_lines
           THEN /\ tmp_text' = tmp_text \o writerow(r)
                /\ unique_lines' = unique_lines
           ELSE UNCHANGED << tmp_text, unique_lines >>
    /\ in_pos' = in_pos + 1
    /\ UNCHANGED << file_exists, file_text, tmp_exists, start_text, calls, dpc >>

\* one iteration of "for row in reader"
DedupRow ==
    /\ dpc = "for_row"
    /\ in_pos <= Len(infile_rows)
    /\ LET r == infile_rows[in_pos]
           line == join(r)
       IN  IF line \notin unique_lines
           THEN /\ tmp_text' = tmp_text \o writerow(r)
                /\ unique_lines' = unique_lines \cup {line}
           ELSE UNCHANGED << tmp_text, unique_lines >>
    /\ in_pos' = in_pos + 1
    /\ UNCHANGED << file_exists, file_text, tmp_exists, start_text, calls, dpc >>

\* the reader is exhausted: the with block closes both files
CloseFiles ==
    /\ dpc = "for_row"
    /\ in_pos > Len(infile_rows)
    /\ dpc' = "replace"
    /\ UNCHANGED << file_exists, file_text, tmp_exists, tmp_text, unique_lines,
                    in_pos, start_text, calls >>

\* os.replace(temp_file_path, file_path)
Replace ==
    /\ dpc = "replace"
    /\ file_text' = tmp_text
    /\ tmp_exists' = FALSE
    /\ tmp_text' = <<>>
    /\ dpc' = "done"
    /\ UNCHANGED << file_exists, unique_lines, in_pos, start_text, calls >>

\* the process is interrupted, or a write fails, before the replace
Interrupt ==
    /\ dpc \in {"for_row", "replace"}
    /\ dpc' = "interrupted"
    /\ UNCHANGED << file_exists, file_text, tmp_exists, tmp_text, unique_lines,
                    in_pos, start_text, calls >>

\* remove_duplicates is called again on the same path
CallAgain ==
    /\ dpc = "done"
    /\ calls < MaxCalls
    /\ calls' = calls + 1
    /\ start_text' = file_text
    /\ dpc' = "start"
    /\ UNCHANGED << file_exists, file_text, tmp_exists, tmp_text, unique_lines,
                    in_pos >>

NextDedup ==
    \/ OpenFiles /\ UNCHANGED << svars, qvars >>
    \/ OpenFails /\ UNCHANGED << svars, qvars >>
    \/ DedupRow /\ UNCHANGED << svars, qvars >>
    \/ CloseFiles /\ UNCHANGED << svars, qvars >>
    \/ Replace /\ UNCHANGED << svars, qvars >>
    \/ Interrupt /\ UNCHANGED << svars, qvars >>
    \/ CallAgain /\ UNCHANGED << svars, qvars >>

DedupStart == InitDedup /\ IdleSplit /\ IdleSearch

SpecDedup == DedupStart /\ [][NextDedup]_vars

-----------------------------------------------------------------------------
(* search_csv_files *)

\* csv.DictReader: the value of a record under a header name is <<field>>, or <<>>
\* for None (restval); under the key None (restkey) it is the list of surplus fields
POSTAL_CODE == <<"postal_code">>
RestKey == <<"None">>

LastIndexOf(fieldnames, k, n) ==
    CHOOSE i \in 1..n : fieldnames[i] = k /\ \A j \in (i + 1)..n : fieldnames[j] # k

\* d = dict(zip(fieldnames, row)), then restkey or restval
DictRecord(fieldnames, r) ==
    LET lf == Len(fieldnames)
        lr == Len(r)
        m == IF lf < lr THEN lf ELSE lr
        keys == {fieldnames[i] : i \in 1..lf} \cup (IF lf < lr THEN {RestKey} ELSE {})
    IN  [k \in keys |->
            IF lf < lr /\ k = RestKey THEN SubSeq(r, lf + 1, lr)
            ELSE IF \E i \in (lr + 1)..lf : fieldnames[i] = k THEN <<>>
            ELSE << r[LastIndexOf(fieldnames, k, m)] >>]

RECURSIVE DropBlank(_)
DropBlank(rs) ==
    IF rs = <<>> THEN <<>>
    ELSE IF Head(rs) = <<>> THEN DropBlank(Tail(rs))
    ELSE <<Head(rs)>> \o DropBlank(Tail(rs))

\* list(csv.DictReader(f)) for a file f holding text
DictReader(text) ==
    LET rows == csv_reader(text)
    IN  IF rows = <<>> THEN <<>>
        ELSE LET data == DropBlank(Tail(rows))
             IN  [i \in 1..Len(data) |-> DictRecord(rows[1], data[i])]

\* filename.endswith('.csv')
EndsWithCsv(name) == Len(name) >= 1 /\ name[Len(name)] = ".csv"

\* faulty variant: the comparison ignores case
Lower(f) == [i \in 1..Len(f) |-> IF f[i] = "C" THEN "c" ELSE f[i]]

RECURSIVE ScanRows_nocase(_, _, _, _)
ScanRows_nocase(recs, i, target, acc) ==
    IF i > Len(recs) THEN [err |-> FALSE, out |-> acc]
    ELSE IF POSTAL_CODE \notin DOMAIN recs[i] THEN [err |-> TRUE, out |-> acc]
    ELSE ScanRows_nocase(recs, i + 1, target,
                  IF recs[i][POSTAL_CODE] # <<>>
                     /\ Lower(recs[i][POSTAL_CODE][1]) = Lower(target)
                  THEN Append(acc, recs[i]) ELSE acc)

\* faulty variant: row.get('postal_code'), a missing key is no match
RECURSIVE ScanRows_get(_, _, _, _)
ScanRows_get(recs, i, target, acc) ==
    IF i > Len(recs) THEN [err |-> FALSE, out |-> acc]
    ELSE ScanRows_get(recs, i + 1, target,
                  IF POSTAL_CODE \in DOMAIN recs[i] /\ recs[i][POSTAL_CODE] = <<target>>
                  THEN Append(acc, recs[i]) ELSE acc)

\* the inner loop over one file: the matches appended, or a KeyError
RECURSIVE ScanRows(_, _, _, _)
ScanRows(recs, i, target, acc) ==
    IF i > Len(recs) THEN [err |-> FALSE, out |-> acc]
    ELSE IF POSTAL_CODE \notin DOMAIN recs[i] THEN [err |-> TRUE, out |-> acc]
    ELSE ScanRows(recs, i + 1, target,
                  IF recs[i][POSTAL_CODE] = <<target>> THEN Append(acc, recs[i]) ELSE acc)

(* generated directories: up to MaxFiles entries with distinct names; the .csv
   entries share up to MaxRows data rows among them, the other entries hold a file
   with a matching record *)
FileNames == {<<"a", ".csv">>, <<"b", ".csv">>, <<"a", ".csv", ".txt">>}
HeaderList == << << POSTAL_CODE, <<"x">> >>, << <<"x">> >> >>
SearchRows == {<<>>, << <<"C">>, <<"c">> >>, << <<"C">>, <<"C">> >>, << <<"c">>, <<"C">> >>}
Targets == {<<"C">>, <<"c">>}

RECURSIVE RowSeqsOfLen(_)
RowSeqsOfLen(n) ==
    IF n = 0 THEN {<<>>}
    ELSE {Append(rs, r) : rs \in RowSeqsOfLen(n - 1), r \in SearchRows}

NameSeqs ==
    UNION {{s \in [1..n -> FileNames] : \A i, j \in 1..n : s[i] = s[j] => i = j} :
              n \in 0..MaxFiles}

\* a file without content (h = 0), or a header row and data rows
FileText(h, rs) == IF h = 0 THEN <<>> ELSE WriteRows(<<HeaderList[h]>> \o rs)

NonCsvText == FileText(1, << << <<"C">>, <<"c">> >> >>)

InitSearch ==
    /\ dir_exists \in BOOLEAN
    /\ \E names \in (IF dir_exists THEN NameSeqs ELSE {<<>>}) :
       \E pool \in UNION {RowSeqsOfLen(k) : k \in 0..MaxRows} :
       \E cuts \in [1..Len(names) -> 0..Len(pool)] :
       \E hdrs \in [1..Len(names) -> 0..Len(HeaderList)] :
          LET n == Len(names)
              from(i) == IF i = 1 THEN 1 ELSE cuts[i - 1] + 1
              slice(i) == SubSeq(pool, from(i), cuts[i])
          IN  /\ \A i \in 1..n : from(i) <= cuts[i] + 1
              /\ IF n = 0 THEN pool = <<>> ELSE cuts[n] = Len(pool)
              /\ \A i \in 1..n : hdrs[i] = 0 => slice(i) = <<>>
              /\ \A i \in 1..n : ~EndsWithCsv(names[i]) => hdrs[i] = 0
              /\ listing = [i \in 1..n |->
                               [name |-> names[i],
                                text |-> IF EndsWithCsv(names[i])
                                         THEN FileText(hdrs[i], slice(i))
                                         ELSE NonCsvText]]
    /\ postal_code \in Targets
    /\ results = <<>>
    /\ list_pos = 1
    /\ returned = <<>>
    /\ qpc = "start"

\* results = []; os.listdir(directory)
ListDir ==
    /\ qpc = "start"
    /\ dir_exists
    /\ results' = <<>>
    /\ list_pos' = 1
    /\ qpc' = "for_filename"
    /\ UNCHANGED << dir_exists, listing, postal_code, returned >>

\* os.listdir on a missing directory raises
ListDirFails ==
    /\ qpc = "start"
    /\ ~dir_exists
    /\ results' = <<>>
    /\ qpc' = "FileNotFoundError"
    /\ UNCHANGED << dir_exists, listing, postal_code, list_pos, returned >>

\* an entry whose name does not end in '.csv'
SkipEntry ==
    /\ qpc = "for_filename"
    /\ list_pos <= Len(listing)
    /\ ~EndsWithCsv(listing[list_pos].name)
    /\ list_pos' = list_pos + 1
    /\ UNCHANGED << dir_exists, listing, postal_code, results, returned, qpc >>

\* a .csv entry: every record is tested, the matches are appended
ScanFile ==
    /\ qpc = "for_filename"
    /\ list_pos <= Len(listing)
    /\ EndsWithCsv(listing[list_pos].name)
    /\ LET scan == ScanRows(DictReader(listing[list_pos].text), 1, postal_code, results)
       IN  /\ ~scan.err
           /\ results' = scan.out
    /\ list_pos' = list_pos + 1
    /\ UNCHANGED << dir_exists, listing, postal_code, returned, qpc >>

\* a .csv entry with a record that has no 'postal_code' key: row['postal_code'] raises
ScanFileKeyError ==
    /\ qpc = "for_filename"
    /\ list_pos <= Len(listing)
    /\ EndsWithCsv(listing[list_pos].name)
    /\ LET scan == ScanRows(DictReader(listing[list_pos].text), 1, postal_code, results)
       IN  /\ scan.err
           /\ results' = scan.out
    /\ qpc' = "KeyError"
    /\ UNCHANGED << dir_exists, listing, postal_code, list_pos, returned >>

\* return results
Return ==
    /\ qpc = "for_filename"
    /\ list_pos > Len(listing)
    /\ returned' = results
    /\ qpc' = "returned"
    /\ UNCHANGED << dir_exists, listing, postal_code, results, list_pos >>

NextSearch ==
    \/ ListDir /\ UNCHANGED << svars, dvars >>
    \/ ListDirFails /\ UNCHANGED << svars, dvars >>
    \/ SkipEntry /\ UNCHANGED << svars, dvars >>
    \/ ScanFile /\ UNCHANGED << svars, dvars >>
    \/ ScanFileKeyError /\ UNCHANGED << svars, dvars >>
    \/ Return /\ UNCHANGED << svars, dvars >>

SearchStart == InitSearch /\ IdleSplit /\ IdleDedup

SpecSearch == SearchStart /\ [][NextSearch]_vars

-----------------------------------------------------------------------------
(* Properties of split_csv *)
Range(s) == {s[i] : i \in 1..Len(s)}

\* the rows of a file after its first row
DataRows(text) == LET rs == csv_reader(text) IN IF rs = <<>> THEN <<>> ELSE Tail(rs)

\* the data rows of the source
SourceData == DataRows(input_text)

\* the data rows of the part files numbered in S, in increasing file-number order
RECURSIVE ConcatData(_)
ConcatData(S) ==
    IF S = {} THEN <<>>
    ELSE LET m == CHOOSE x \in S : \A y \in S : x <= y
         IN  DataRows(parts[m]) \o ConcatData(S \ {m})

RECURSIVE SumRows(_)
SumRows(n) == IF n = 0 THEN 0 ELSE Len(csv_reader(parts[n])) + SumRows(n - 1)

\* data rows written so far
RowsWritten ==
    IF pc \in {"new_file", "write_row"} THEN reader_pos - 3
    ELSE IF pc \in {"for_row", "done"} THEN reader_pos - 2
    ELSE 0

\* C1 as stated: after split_csv finishes, the data rows of all part_<i>.csv files
\* in the output folder, in file-number order, are exactly the source's data rows.
C1_AllPartFilesReproduceSource ==
    pc = "done" => ConcatData(DOMAIN parts) = SourceData

\* C1 amended: after split_csv finishes, the data rows of the part files this run
\* opened, in file-number order, are exactly the source's data rows, in order.
C1_WrittenPartsReproduceSource ==
    pc = "done" => ConcatData(Range(opened)) = SourceData

C1_Witness ==
    /\ pc = "done"
    /\ Len(SourceData) >= 3
    /\ Len(opened) >= 2
    /\ \E i \in 1..Len(SourceData) : \E j \in 1..Len(SourceData[i]) :
          NeedsQuote(SourceData[i][j])

\* C2: with T data rows and max_lines = N >= 1 the run produces ceil(T / N) files,
\* the first T div N with N data rows each and, when N does not divide T, one more
\* with the T mod N remaining rows; no file when T = 0.
C2_FileCountAndSizes ==
    pc = "done" =>
        LET T == Len(SourceData)
            N == max_lines
        IN  /\ T = 0 => opened = <<>>
            /\ N >= 1 =>
                  LET k == T \div N
                      r == T % N
                  IN  /\ Len(opened) = (IF r = 0 THEN k ELSE k + 1)
                      /\ \A i \in 1..k : Len(DataRows(parts[opened[i]])) = N
                      /\ r > 0 => Len(DataRows(parts[opened[k + 1]])) = r

C2_Witness ==
    /\ pc = "done"
    /\ max_lines = 2
    /\ Len(SourceData) = 3
    /\ Len(opened) = 2

\* C3 as stated: for every max_lines, at every point of the run no output file holds
\* more than max_lines data rows.
C3_NoFileExceedsMaxLines ==
    \A i \in Range(opened) : Len(DataRows(parts[i])) <= max_lines

\* C3 amended: for every max_lines >= 1, at every point of the run no output file
\* holds more than max_lines data rows.
C3_NoFileExceedsPositiveMaxLines ==
    max_lines >= 1 => \A i \in Range(opened) : Len(DataRows(parts[i])) <= max_lines

C3_Witness ==
    /\ pc = "new_file"
    /\ max_lines >= 2
    /\ file_count >= 1
    /\ Len(DataRows(parts[file_count])) = max_lines

\* C4: the files are opened as part_1, part_2, ... with no number skipped or reused,
\* every one starts with the header row, and the header is written once per file:
\* the files hold one header each plus the data rows written so far.
C4_HeaderFirstAndConsecutiveNames ==
    /\ opened = [i \in 1..file_count |-> i]
    /\ \A i \in 1..file_count :
          /\ i \in DOMAIN parts
          /\ Len(parts[i]) >= Len(writerow(headers))
          /\ SubSeq(parts[i], 1, Len(writerow(headers))) = writerow(headers)
          /\ csv_reader(parts[i])[1] = headers
    /\ SumRows(file_count) = file_count + RowsWritten

C4_Witness ==
    /\ pc = "done"
    /\ file_count >= 2
    /\ headers # <<>>
    /\ \E j \in 1..Len(headers) : NeedsQuote(headers[j])

-----------------------------------------------------------------------------
(* Properties of remove_duplicates *)

\* the canonical key of a row: its fields joined with ','
RECURSIVE CanonicalKey(_)
CanonicalKey(r) ==
    IF r = <<>> THEN <<>>
    ELSE IF Len(r) = 1 THEN r[1]
    ELSE r[1] \o <<DELIM>> \o CanonicalKey(Tail(r))

\* rows of the file when the call started, and rows of the file now
In == csv_reader(start_text)
Out == csv_reader(file_text)

\* indices of the rows that are the first with their key
FirstIdx(rs) ==
    {i \in 1..Len(rs) : \A j \in 1..(i - 1) : CanonicalKey(rs[j]) # CanonicalKey(rs[i])}

RECURSIVE RowsAt(_, _)
RowsAt(rs, S) ==
    IF S = {} THEN <<>>
    ELSE LET m == CHOOSE x \in S : \A y \in S : x <= y
         IN  <<rs[m]>> \o RowsAt(rs, S \ {m})

\* C5: the output holds exactly one row per distinct canonical key, the first input
\* row with that key, in the order of those first occurrences.
C5_OneRowPerKeyFirstOccurrence ==
    dpc = "done" =>
        /\ Out = RowsAt(In, FirstIdx(In))
        /\ Len(Out) = Cardinality({CanonicalKey(In[i]) : i \in 1..Len(In)})

C5_Witness ==
    /\ dpc = "done"
    /\ calls = 1
    /\ Len(Out) >= 2
    /\ Len(Out) < Len(In)

\* C6 as stated: a row is omitted only if an identical row occurred earlier.
C6_OnlyIdenticalRowsDropped ==
    dpc = "done" =>
        \A i \in 1..Len(In) :
            In[i] \notin Range(Out) => \E j \in 1..(i - 1) : In[j] = In[i]

\* C6 amended: a row is omitted only if a row with the same canonical key occurred
\* earlier; every canonical key of the input is the key of a row of the output.
C6_OnlySameKeyRowsDropped ==
    dpc = "done" =>
        /\ \A i \in 1..Len(In) :
              In[i] \notin Range(Out) =>
                  \E j \in 1..(i - 1) : CanonicalKey(In[j]) = CanonicalKey(In[i])
        /\ \A i \in 1..Len(In) :
              \E k \in 1..Len(Out) : CanonicalKey(Out[k]) = CanonicalKey(In[i])

C6_Witness ==
    /\ dpc = "done"
    /\ \E i \in 1..Len(In) :
          /\ In[i] \notin Range(Out)
          /\ \A j \in 1..(i - 1) : In[j] # In[i]

\* the complete deduplicated content for a file holding text
ExpectedText(text) ==
    LET rs == csv_reader(text) IN WriteRows(RowsAt(rs, FirstIdx(rs)))

\* C7: until the replace step the file at file_path holds the content it had when
\* the call started, also when the call is interrupted; after it, the complete
\* deduplicated content.
C7_OriginalIntactUntilReplace ==
    /\ dpc \in {"start", "for_row", "replace", "interrupted", "FileNotFoundError"} =>
          file_text = start_text
    /\ dpc = "done" => file_text = ExpectedText(start_text)

C7_Witness ==
    /\ dpc = "interrupted"
    /\ tmp_text # <<>>
    /\ tmp_text # ExpectedText(start_text)
    /\ file_text # ExpectedText(start_text)

\* C8: a second call on the result of the first leaves the file as it was.
C8_Idempotent ==
    (calls >= 2 /\ dpc = "done") => file_text = start_text

C8_Witness ==
    /\ calls >= 2
    /\ dpc = "done"
    /\ Len(Out) >= 2
    /\ \E i \in 1..Len(Out) : \E j \in 1..Len(Out[i]) : NeedsQuote(Out[i][j])

-----------------------------------------------------------------------------
(* Properties of search_csv_files *)

CsvIdx == {i \in 1..Len(listing) : EndsWithCsv(listing[i].name)}

\* the header row of the file has a postal_code column
HasColumn(text) ==
    LET rows == csv_reader(text)
    IN  rows # <<>> /\ \E i \in 1..Len(rows[1]) : rows[1][i] = POSTAL_CODE

\* the file has a record, that is a data row that is not blank
HasRecord(text) ==
    LET rows == csv_reader(text)
    IN  rows # <<>> /\ \E i \in 2..Len(rows) : rows[i] # <<>>

IsMatch(d) == POSTAL_CODE \in DOMAIN d /\ d[POSTAL_CODE] = <<postal_code>>

\* the matching records of entries i..Len(listing), .csv entries only
RECURSIVE MatchesFrom(_)
MatchesFrom(i) ==
    IF i > Len(listing) THEN <<>>
    ELSE (IF i \in CsvIdx THEN SelectSeq(DictReader(listing[i].text), IsMatch) ELSE <<>>)
         \o MatchesFrom(i + 1)

\* C9: when every .csv file has a postal_code column, the call returns exactly the
\* records of the .csv files whose postal_code equals the target, in listing order
\* and then row order.
C9_ReturnsExactMatches ==
    (qpc = "returned" /\ \A i \in CsvIdx : HasColumn(listing[i].text)) =>
        returned = MatchesFrom(1)

C9_Witness ==
    /\ qpc = "returned"
    /\ \A i \in CsvIdx : HasColumn(listing[i].text)
    /\ Len(returned) >= 2
    /\ returned[1] # returned[2]
    /\ \E i \in 1..Len(listing) :
          i \notin CsvIdx /\ \E k \in 1..Len(DictReader(listing[i].text)) :
                                IsMatch(DictReader(listing[i].text)[k])

\* C10 as stated: the call never returns when some .csv file lacks the column.
C10_FailsWheneverColumnMissing ==
    qpc = "returned" => \A i \in CsvIdx : HasColumn(listing[i].text)

\* C10 amended: when some .csv file lacks the column and has a record, the call
\* never gets past that file and never returns; it ends with a KeyError.
C10_FailsWhenRecordLacksColumn ==
    \A i \in CsvIdx :
        (~HasColumn(listing[i].text) /\ HasRecord(listing[i].text)) =>
            /\ qpc \in {"start", "for_filename", "KeyError"}
            /\ list_pos <= i
            /\ returned = <<>>

C10_Witness ==
    /\ qpc = "KeyError"
    /\ list_pos >= 2
    /\ results # <<>>

====
